---- MODULE Spec2Model ----
(***************************************************************************)
(* VoiceNotes: a model of the two variants of the application,             *)
(*   "app"    = src/app.js            (mobile-optimized, Web Speech API)   *)
(*   "hybrid" = src/unnamed/part_001  (hybrid speech recognition)          *)
(* Texts are sequences of one-character strings.  The local document store *)
(* (IndexedDB) and the speech engine (SpeechRecognition) are external      *)
(* collaborators, modelled by their documented behaviour.                  *)
(***************************************************************************)
EXTENDS Integers, Sequences, FiniteSets, TLC

VARIABLES
    variant,        \* which of the two source files runs
    store,          \* object store 'notes': key -> record
    keyGen,         \* the store's autoIncrement key generator (last key issued)
    now,            \* Date.now(), a logical clock
    deletedIds,     \* history: keys of records removed by deleteNote
    lastAct,        \* history: the handler that ran last
    currentNote,    \* the open note object, or Null
    currentLanguage,
    edTitle,        \* elements.noteTitleInput.value
    edText,         \* elements.noteTextArea.value
    selectionStart, \* elements.noteTextArea.selectionStart
    noteStatus,     \* elements.noteStatus.textContent
    saveTimeout,    \* "none" (null), "armed" (a live timer) or "spent"
    saveDue,        \* ms until saveTimeout's timer expires, while it is armed
    strayTimers,    \* ms left of the live autosave timers saveTimeout lost track of
    txq,            \* store requests issued and not yet completed, oldest first
    burst,          \* history: the edits and saves since the debounce was idle
    manualSince,    \* history: Ctrl/Cmd+S was pressed since the timer was armed
    isMobileDevice, \* app.js: what detectMobile() found
    isRecording,
    isRecognitionStarting,  \* app.js only
    recognition,    \* TRUE once initSpeechRecognition() has built the engine object
    lastFinalizedLength,    \* app.js only
    engine,         \* the SpeechRecognition object's state
    results,        \* event.results of the engine's session: the slots so far
    onLine,         \* navigator.onLine
    offlinePending, \* an 'offline' event is queued and its listener has not run
    timers,         \* pending restart timers: kind -> how many
    stale,          \* history: those of them armed before the last stopRecording
    engineCall,     \* history: the engine methods the last handler invoked
    obs,            \* history: what the last handler found and did
    dict            \* history: the utterances dictated since the text was last typed

storeVars == <<store, keyGen, deletedIds>>
editVars == <<currentNote, currentLanguage, edTitle, edText, selectionStart>>
saveVars == <<noteStatus, saveTimeout, saveDue, strayTimers, txq>>
histVars == <<burst, manualSince>>
recVars == <<isMobileDevice, isRecording, isRecognitionStarting, recognition,
             lastFinalizedLength, engine, results, onLine, offlinePending,
             timers, stale, engineCall, obs>>

vars == <<variant, store, keyGen, now, deletedIds, lastAct,
          currentNote, currentLanguage, edTitle, edText, selectionStart,
          noteStatus, saveTimeout, saveDue, strayTimers, txq,
          burst, manualSince,
          isMobileDevice, isRecording, isRecognitionStarting, recognition,
          lastFinalizedLength, engine, results, onLine, offlinePending,
          timers, stale, engineCall, obs, dict>>

\* ------------------------------------------------------------------ bounds
MaxClock == 3
MaxGwSaves == 3
MaxNotes == 1
\* Records the saves of one open note may add to the store.
MaxRecords == 2
MaxTimers == 2
MaxSlots == 2
MaxText == 4

\* ------------------------------------------------------------------ texts

\* The characters sanitizeInput rewrites (textContent -> innerHTML).
EscCharKeepAmp(c) ==
    CASE c = "<" -> <<"&", "l", "t", ";">>
      [] c = ">" -> <<"&", "g", "t", ";">>
      [] OTHER   -> <<c>>

EscChar(c) ==
    CASE c = "&" -> <<"&", "a", "m", "p", ";">>
      [] c = "<" -> <<"&", "l", "t", ";">>
      [] c = ">" -> <<"&", "g", "t", ";">>
      [] OTHER   -> <<c>>

RECURSIVE sanitizeInput(_)
sanitizeInput(input) ==
    IF input = <<>> THEN <<>>
    ELSE EscChar(Head(input)) \o sanitizeInput(Tail(input))

UntitledNote == <<"U", "n", "t", "i", "t", "l", "e", "d", " ", "N", "o", "t", "e">>

\* Field values a caller of the gateway submits.
GwTitles == {<<>>, <<"t">>}
GwTexts == {<<"x">>, <<"<", "y">>, <<"\"", "\\">>}
\* No summary: null, and the empty string, which saveNote stores as null.
NoSummary == <<>>
GwSummaries == {NoSummary, <<"&">>}
Languages == {"en", "hi"}

\* ------------------------------------------------------------------ store
\* note.id is null (0 here) until the store assigns a key; keys start at 1.
NullId == 0

RECURSIVE SortedKeys(_)
SortedKeys(S) ==
    IF S = {} THEN <<>>
    ELSE LET m == CHOOSE x \in S : \A y \in S : x <= y
         IN <<m>> \o SortedKeys(S \ {m})

Reverse(s) == [i \in 1..Len(s) |-> s[Len(s) + 1 - i]]

\* store.getAll(): every record, in ascending key order.
StoreGetAll(st) ==
    LET ks == SortedKeys(DOMAIN st) IN [i \in 1..Len(ks) |-> st[ks[i]]]

\* The record saveNote builds from the note it is given.
sanitizedNoteApp(note) ==
    [id |-> note.id,
     title |-> sanitizeInput(note.title),
     text |-> sanitizeInput(note.text),
     language |-> note.language,
     timestamp |-> note.timestamp,
     tags |-> note.tags]

\* The hybrid variant's record has a summary as well:
\* note.summary ? sanitizeInput(note.summary) : null
sanitizedNoteHybrid(note) ==
    [id |-> note.id,
     title |-> sanitizeInput(note.title),
     text |-> sanitizeInput(note.text),
     summary |-> IF "summary" \in DOMAIN note /\ note.summary # NoSummary
                 THEN sanitizeInput(note.summary) ELSE NoSummary,
     language |-> note.language,
     timestamp |-> note.timestamp,
     tags |-> note.tags]

sanitizedNote(note) ==
    IF variant = "hybrid" THEN sanitizedNoteHybrid(note) ELSE sanitizedNoteApp(note)

\* saveNote(note): the request it issues, store.put(record) when note.id is
\* set and store.add(record) otherwise; the record is built when it is called.
saveNote(note) ==
    [op |-> IF note.id # NullId THEN "put" ELSE "add", rec |-> sanitizedNote(note)]

\* The key a put/add request resolves with (request.result).
RequestKey(kg, req) == IF req.op = "put" THEN req.rec.id ELSE kg + 1

\* The object store after a put/add request: put overwrites or creates the
\* record at its key, add creates one at the next generated key.
StoreAfter(st, kg, req) ==
    LET k == RequestKey(kg, req)
        rec == [req.rec EXCEPT !.id = k]
    IN [i \in DOMAIN st \cup {k} |-> IF i = k THEN rec ELSE st[i]]

KeyGenAfter(kg, req) ==
    LET k == RequestKey(kg, req) IN IF k > kg THEN k ELSE kg

\* getAllNotes(): request.result.reverse().
getAllNotes(st) == Reverse(StoreGetAll(st))

\* deleteNote(id): store.delete(id); an absent key is not an error and removes
\* nothing.  A delete that removed some record anyway would take the last one.
deleteNoteOrLast(st, id) ==
    IF id \in DOMAIN st \/ DOMAIN st = {} THEN [i \in DOMAIN st \ {id} |-> st[i]]
    ELSE [i \in DOMAIN st \ {CHOOSE m \in DOMAIN st : \A j \in DOMAIN st : j <= m} |-> st[i]]

deleteNote(st, id) == [i \in DOMAIN st \ {id} |-> st[i]]

\* ------------------------------------------------------------------ notes
Null == [null |-> TRUE]

\* No dictation since the text was last typed or the caret last moved.
NoDict == [active |-> FALSE, base |-> <<>>, utts |-> <<>>]

\* The object createNewNote builds.
newNote(lang, t) ==
    IF variant = "hybrid"
    THEN [id |-> NullId, title |-> <<>>, text |-> <<>>, summary |-> NoSummary,
          language |-> lang, timestamp |-> t, tags |-> <<>>]
    ELSE [id |-> NullId, title |-> <<>>, text |-> <<>>, language |-> lang,
          timestamp |-> t, tags |-> <<>>]

\* History kept in a save request: whether the note it saves is still the open
\* one.  createNewNote opens another note, which ends that for every request
\* in flight.
Superseded(q) ==
    [i \in 1..Len(q) |-> IF q[i].op \in {"put", "add"}
                         THEN [q[i] EXCEPT !.open = FALSE] ELSE q[i]]

\* ------------------------------------------------------------------ gateway alone
\* A caller that awaits each gateway call before the next one.
GwNotes ==
    IF variant = "hybrid"
    THEN [id : {NullId} \cup 1..keyGen, title : GwTitles, text : GwTexts,
          summary : GwSummaries, language : {"en"}, timestamp : {now}, tags : {<<>>}]
    ELSE [id : {NullId} \cup 1..keyGen, title : GwTitles, text : GwTexts,
          language : {"en"}, timestamp : {now}, tags : {<<>>}]

\* The caller submits its note (the application's callers submit currentNote)
\* and, as autoSave does, gives it the key the save resolves with when it had
\* none.
GwSave ==
    /\ now <= MaxGwSaves
    /\ \E note \in GwNotes :
         /\ store' = StoreAfter(store, keyGen, saveNote(note))
         /\ keyGen' = KeyGenAfter(keyGen, saveNote(note))
         /\ currentNote' = [note EXCEPT !.id = RequestKey(keyGen, saveNote(note))]
         /\ lastAct' = IF note.id = NullId THEN "gwInsert" ELSE "gwUpdate"
    /\ now' = now + 1
    /\ UNCHANGED <<recVars, dict, variant, deletedIds, currentLanguage, edTitle, edText,
                   selectionStart, saveVars, histVars>>

GwDelete ==
    /\ \E id \in 1..(keyGen + 1) :
         /\ store' = deleteNote(store, id)
         /\ deletedIds' = deletedIds \cup ({id} \cap DOMAIN store)
         /\ lastAct' = IF id \in DOMAIN store THEN "gwDelete" ELSE "gwDeleteAbsent"
    /\ UNCHANGED <<recVars, dict, variant, keyGen, now, editVars, saveVars, histVars>>

\* ------------------------------------------------------------------ export
\* JSON.stringify of a string: a quoted literal in which the quote, the
\* backslash and the newline are written as escapes.
JsonEscape(c) ==
    CASE c = "\"" -> <<"\\", "\"">>
      [] c = "\\" -> <<"\\", "\\">>
      [] c = "\n" -> <<"\\", "n">>
      [] OTHER   -> <<c>>

RECURSIVE JsonEscapeAll(_)
JsonEscapeAll(str) ==
    IF str = <<>> THEN <<>> ELSE JsonEscape(Head(str)) \o JsonEscapeAll(Tail(str))

jsonStringifyRaw(str) == <<"\"">> \o str \o <<"\"">>

jsonStringify(str) == <<"\"">> \o JsonEscapeAll(str) \o <<"\"">>

\* JSON.parse of a string literal: the characters after the opening quote up
\* to the closing one, an escape standing for its character.
JsonUnescape(c) == IF c = "n" THEN "\n" ELSE c

RECURSIVE JsonChars(_)
JsonChars(lit) ==
    IF lit = <<>> \/ Head(lit) = "\"" THEN <<>>
    ELSE IF Head(lit) = "\\" /\ Len(lit) >= 2
         THEN <<JsonUnescape(lit[2])>> \o JsonChars(SubSeq(lit, 3, Len(lit)))
         ELSE <<Head(lit)>> \o JsonChars(Tail(lit))

jsonParse(lit) == IF lit = <<>> THEN <<>> ELSE JsonChars(Tail(lit))

\* The language codes as texts.
LanguageText == [en |-> <<"e", "n">>, hi |-> <<"h", "i">>]

LanguageOf(txt) == CHOOSE l \in Languages : LanguageText[l] = txt

\* exportNotes(): JSON.stringify(notes, null, 2) of the list, one object per
\* note with its fields in turn; numbers and the (empty) tags array are
\* written as they are.
exportDocument(notes) ==
    [i \in 1..Len(notes) |->
        [id |-> notes[i].id,
         title |-> jsonStringify(notes[i].title),
         text |-> jsonStringify(notes[i].text),
         language |-> jsonStringify(LanguageText[notes[i].language]),
         timestamp |-> notes[i].timestamp,
         tags |-> notes[i].tags]]

\* JSON.parse of the export document.
parseDocument(doc) ==
    [i \in 1..Len(doc) |->
        [id |-> doc[i].id,
         title |-> jsonParse(doc[i].title),
         text |-> jsonParse(doc[i].text),
         language |-> LanguageOf(jsonParse(doc[i].language)),
         timestamp |-> doc[i].timestamp,
         tags |-> doc[i].tags]]

\* The export button; with no notes it only shows a message.  The document
\* goes to a download and the application keeps nothing of it.
GwExport ==
    /\ getAllNotes(store) # <<>>
    /\ lastAct' = "gwExport"
    /\ UNCHANGED <<recVars, dict, variant, storeVars, now, editVars, saveVars, histVars>>

\* ------------------------------------------------------------------ editor and autosave
\* Values a user types into the title and the text field.
EdTitles == {<<>>, <<"t">>}
EdTexts == {<<>>, <<"<">>}

\* setTimeout(autoSave, 1000)
AutoSaveDelay == 1000
\* Time advances in steps of half the autosave delay.
TimeStep == AutoSaveDelay \div 2

Min(a, b) == IF a < b THEN a ELSE b


\* The user opens one note at a time: no click on the list while an earlier
\* selection is still loading.
NoSelectionPending == \A i \in 1..Len(txq) : txq[i].op # "get"

\* updateEditor(): the fields show the open note; setting the text area's
\* value leaves the caret at its end.
updateEditor(note) ==
    IF note = Null
    THEN UNCHANGED <<edTitle, edText, selectionStart>>
    ELSE /\ edTitle' = note.title
         /\ edText' = note.text
         /\ selectionStart' = Len(note.text)

\* scheduleAutoSave(): clearTimeout(saveTimeout), then arm a new timer.  Without
\* the clearTimeout the earlier timer would stay live, which strayTimers records.
scheduleAutoSaveNoClear ==
    /\ noteStatus' = "saving"
    /\ saveTimeout' = "armed"
    /\ saveDue' = AutoSaveDelay
    /\ strayTimers' = IF saveTimeout = "armed" /\ Len(strayTimers) < 2
                      THEN Append(strayTimers, saveDue) ELSE strayTimers

scheduleAutoSave ==
    /\ noteStatus' = "saving"
    /\ saveTimeout' = "armed"
    /\ saveDue' = AutoSaveDelay
    /\ strayTimers' = strayTimers

\* History of the debounce, kept by the title and text 'input' handlers: the
\* editor's content after the edit, the saves invoked since, whether a manual
\* save, a new note or a note switch came since, the time since, and how many
\* edits came less than the delay apart with no save between them (2 stands
\* for more).  A language change re-arms the debounce too: it restarts the
\* count and the time; in the hybrid variant it also rewrites the editor's
\* fields from the open note, which ends the burst of edits.
BurstEdit ==
    /\ burst' = [saves |-> 0, clean |-> TRUE, quiet |-> 0,
                 title |-> edTitle', text |-> edText',
                 edits |-> IF burst.clean /\ burst.saves = 0 /\ burst.quiet < AutoSaveDelay
                           THEN Min(burst.edits + 1, 2) ELSE 1]
    /\ manualSince' = FALSE

\* Once a manual save, a new note or a note switch came, the rest is not kept.
NoBurst ==
    [saves |-> 0, clean |-> FALSE, quiet |-> AutoSaveDelay, title |-> <<>>, text |-> <<>>,
     edits |-> 0]

BurstBroken == burst' = NoBurst

BurstSave == burst' = IF burst.clean THEN [burst EXCEPT !.saves = Min(@ + 1, 2)] ELSE burst

\* 'input' on the title field.
TitleInput ==
    /\ \E v \in EdTitles : v # edTitle /\ edTitle' = v
    /\ edText' = edText
    /\ scheduleAutoSave
    /\ BurstEdit
    /\ lastAct' = "titleInput"
    /\ UNCHANGED <<recVars, dict, variant, storeVars, now, currentNote, currentLanguage,
                   selectionStart, txq>>

\* 'input' on the text area.
TextInput ==
    /\ \E v \in EdTexts : v # edText /\ edText' = v /\ selectionStart' = Len(v)
    /\ edTitle' = edTitle
    /\ scheduleAutoSave
    /\ BurstEdit
    /\ lastAct' = "textInput"
    /\ dict' = NoDict
    /\ UNCHANGED <<recVars, variant, storeVars, now, currentNote, currentLanguage,
                   txq>>

\* 'change' on the language select.
LanguageChange ==
    /\ \E l \in Languages :
         /\ l # currentLanguage
         /\ currentLanguage' = l
         /\ IF currentNote # Null
            THEN /\ currentNote' = [currentNote EXCEPT !.language = l]
                 /\ IF variant = "hybrid"
                    THEN updateEditor(currentNote')
                    ELSE UNCHANGED <<edTitle, edText, selectionStart>>
                 /\ scheduleAutoSave
                 /\ manualSince' = FALSE
                 /\ burst' = IF variant = "hybrid" THEN NoBurst
                             ELSE IF burst.clean
                             THEN [burst EXCEPT !.saves = 0, !.quiet = 0]
                             ELSE burst
            ELSE UNCHANGED <<currentNote, edTitle, edText, selectionStart,
                             noteStatus, saveTimeout, saveDue, strayTimers,
                             burst, manualSince>>
    /\ lastAct' = "languageChange"
    /\ dict' = IF variant = "hybrid" /\ currentNote # Null THEN NoDict ELSE dict
    /\ UNCHANGED <<recVars, variant, storeVars, now, txq>>

\* createNewNote(), from the button or Ctrl/Cmd+N.
createNewNote ==
    /\ currentNote' = newNote(currentLanguage, now)
    /\ updateEditor(currentNote')
    /\ BurstBroken
    /\ txq' = Superseded(txq)
    /\ lastAct' = "createNewNote"
    /\ dict' = NoDict
    /\ UNCHANGED <<recVars, variant, storeVars, now, currentLanguage, noteStatus,
                   saveTimeout, saveDue, strayTimers, manualSince>>

\* autoSave() up to its await: the open note takes the editor's values and
\* is handed to saveNote.  Leaves the timer variables and manualSince to its caller.
autoSaveTitle(t) == IF t = <<>> THEN UntitledNote ELSE t

PendingAdds == Cardinality({i \in 1..Len(txq) : txq[i].op = "add"})

\* autoSave(), while the store has room for maxRecords records.
autoSaveWithin(how, maxRecords) ==
    IF currentNote = Null
    THEN /\ lastAct' = "autoSave:none"
         /\ UNCHANGED <<currentNote, now, txq, burst>>
    ELSE /\ now < MaxClock
         /\ currentNote.id # NullId \/ keyGen + PendingAdds < maxRecords
         /\ currentNote' = [currentNote EXCEPT !.title = autoSaveTitle(edTitle),
                                               !.text = edText,
                                               !.timestamp = now]
         /\ now' = now + 1
         /\ txq' = Append(txq, saveNote(currentNote') @@ [then |-> "autoSave", open |-> TRUE])
         /\ IF how = "autoSave:manual" THEN BurstBroken ELSE BurstSave
         /\ lastAct' = how

autoSave(how) == autoSaveWithin(how, MaxNotes)

\* The autosave timer expires: saveTimeout's timer, or one it lost track of.
AutoSaveTimerWithin(maxRecords) ==
    /\ \/ /\ saveTimeout = "armed" /\ saveDue = 0
          /\ saveTimeout' = "spent"
          /\ UNCHANGED strayTimers
       \/ /\ \E i \in 1..Len(strayTimers) :
               /\ strayTimers[i] = 0
               /\ strayTimers' = [j \in 1..(Len(strayTimers) - 1) |->
                                    IF j < i THEN strayTimers[j] ELSE strayTimers[j + 1]]
          /\ UNCHANGED saveTimeout
    /\ autoSaveWithin("autoSave:timer", maxRecords)
    /\ UNCHANGED <<recVars, dict, variant, storeVars, currentLanguage, edTitle, edText,
                   selectionStart, noteStatus, saveDue, manualSince>>

AutoSaveTimer == AutoSaveTimerWithin(MaxNotes)

\* Ctrl/Cmd+S: autoSave() at once.
ManualSaveWithin(maxRecords) ==
    /\ autoSaveWithin("autoSave:manual", maxRecords)
    /\ manualSince' = (saveTimeout = "armed")
    /\ UNCHANGED <<recVars, dict, variant, storeVars, currentLanguage, edTitle, edText,
                   selectionStart, noteStatus, saveTimeout, saveDue, strayTimers>>

ManualSave == ManualSaveWithin(MaxNotes)

\* Time passes; a timer that is due fires before more time passes.
Tick ==
    /\ ~(saveTimeout = "armed" /\ saveDue = 0)
    /\ \A i \in 1..Len(strayTimers) : strayTimers[i] # 0
    /\ saveTimeout = "armed" \/ burst.quiet < AutoSaveDelay
    /\ saveDue' = IF saveTimeout = "armed" THEN saveDue - TimeStep ELSE saveDue
    /\ strayTimers' = [i \in 1..Len(strayTimers) |-> strayTimers[i] - TimeStep]
    /\ burst' = [burst EXCEPT !.quiet = Min(@ + TimeStep, AutoSaveDelay)]
    /\ lastAct' = "tick"
    /\ UNCHANGED <<recVars, dict, variant, storeVars, now, editVars, noteStatus, saveTimeout,
                   txq, manualSince>>

\* A click on a note of the list: currentNote = await getNote(noteId).  The
\* list is taken to show the notes of the store (loadNotes redraws it after
\* every save and selection, and changes nothing else).
SelectNote ==
    /\ NoSelectionPending
    /\ \E id \in DOMAIN store :
         txq' = Append(txq, [op |-> "get", id |-> id, then |-> "select"])
    /\ BurstBroken
    /\ lastAct' = "selectNote"
    /\ UNCHANGED <<recVars, dict, variant, storeVars, now, editVars, noteStatus, saveTimeout,
                   saveDue, strayTimers, manualSince>>

\* The oldest store request completes and the code awaiting it resumes.
SaveDone ==
    /\ txq # <<>> /\ Head(txq).op \in {"put", "add"}
    /\ LET req == Head(txq)
           id == RequestKey(keyGen, req)
       IN /\ store' = StoreAfter(store, keyGen, req)
          /\ keyGen' = KeyGenAfter(keyGen, req)
          /\ IF currentNote = Null
             THEN \* currentNote.id throws; the catch block reports it
                  /\ noteStatus' = "error"
                  /\ txq' = Tail(txq)
                  /\ UNCHANGED currentNote
             ELSE /\ currentNote' = IF currentNote.id = NullId
                                    THEN [currentNote EXCEPT !.id = id]
                                    ELSE currentNote
                  /\ noteStatus' = "saved"
                  /\ txq' = Tail(txq)
    /\ lastAct' = "saveDone"
    /\ UNCHANGED <<recVars, dict, variant, deletedIds, now, currentLanguage, edTitle, edText,
                   selectionStart, saveTimeout, saveDue, strayTimers,
                   histVars>>

\* request.onerror: saveNote rejects and autoSave's catch block runs.
SaveFailed ==
    /\ txq # <<>> /\ Head(txq).op \in {"put", "add"}
    /\ txq' = Tail(txq)
    /\ noteStatus' = "error"
    /\ lastAct' = "saveFailed"
    /\ UNCHANGED <<recVars, dict, variant, storeVars, now, editVars, saveTimeout, saveDue,
                   strayTimers, histVars>>

GetDone ==
    /\ txq # <<>> /\ Head(txq).op = "get"
    /\ LET req == Head(txq)
       IN /\ currentNote' = IF req.id \in DOMAIN store THEN store[req.id] ELSE Null
          /\ updateEditor(currentNote')
          /\ txq' = Superseded(Tail(txq))
    /\ BurstBroken
    /\ lastAct' = "getDone"
    /\ dict' = NoDict
    /\ UNCHANGED <<recVars, variant, storeVars, now, currentLanguage, noteStatus,
                   saveTimeout, saveDue, strayTimers, manualSince>>

\* What both delete handlers do once the record is gone: the open note
\* becomes notes[0] of getAllNotes(), or a new note when the list is empty.
openAfterDelete(st) ==
    IF getAllNotes(st) # <<>> THEN getAllNotes(st)[1] ELSE newNote(currentLanguage, now)

\* confirmDelete(), and the delete button of a list item after its confirm():
\* deleteNote(id), then for the open note the fallback.  The store completes
\* the delete and the list request before anything else happens.
deleteAndReopen(id) ==
    /\ txq = <<>>
    /\ store' = deleteNote(store, id)
    /\ deletedIds' = deletedIds \cup ({id} \cap DOMAIN store)
    /\ IF currentNote # Null /\ currentNote.id = id
       THEN /\ currentNote' = openAfterDelete(store')
            /\ updateEditor(currentNote')
            /\ dict' = NoDict
            /\ BurstBroken
       ELSE UNCHANGED <<currentNote, edTitle, edText, selectionStart, dict, burst>>
    /\ UNCHANGED <<recVars, variant, keyGen, now, currentLanguage, saveVars, manualSince>>

\* The delete button of the editor and the confirmation dialog's button.
confirmDelete ==
    /\ variant = "app"
    /\ currentNote # Null /\ currentNote.id # NullId
    /\ deleteAndReopen(currentNote.id)
    /\ lastAct' = "confirmDelete"

\* The delete button of a list item, confirmed.
ListItemDelete ==
    /\ variant = "app"
    /\ \E id \in DOMAIN store : deleteAndReopen(id)
    /\ lastAct' = "listItemDelete"

\* The same two handlers await by await, with the rest of the program running
\* in between.  First `await deleteNote(id)`: the delete request joins the
\* store's queue; `by` is the handler that issued it.
deleteRequest(id, by) ==
    /\ txq' = Append(txq, [op |-> "delete", id |-> id, then |-> by])
    /\ lastAct' = by
    /\ UNCHANGED <<recVars, dict, variant, storeVars, now, editVars, noteStatus,
                   saveTimeout, saveDue, strayTimers, histVars>>

ConfirmDeleteRequest ==
    /\ variant = "app"
    /\ currentNote # Null /\ currentNote.id # NullId
    /\ \A i \in 1..Len(txq) : txq[i].op \notin {"delete", "getAll"}
    /\ deleteRequest(currentNote.id, "confirmDelete")

ListItemDeleteRequest ==
    /\ variant = "app"
    /\ \A i \in 1..Len(txq) : txq[i].op \notin {"delete", "getAll"}
    /\ \E id \in DOMAIN store : deleteRequest(id, "listItemDelete")

\* The delete request completes and its handler resumes: confirmDelete goes on
\* to `await getAllNotes()`, the list item's handler does so when the open
\* note is the deleted one.
DeleteDone ==
    /\ txq # <<>> /\ Head(txq).op = "delete"
    /\ LET req == Head(txq)
       IN /\ store' = deleteNote(store, req.id)
          /\ deletedIds' = deletedIds \cup ({req.id} \cap DOMAIN store)
          /\ txq' = IF \/ req.then = "confirmDelete"
                       \/ currentNote # Null /\ currentNote.id = req.id
                    THEN Append(Tail(txq), [op |-> "getAll", then |-> req.then])
                    ELSE Tail(txq)
    /\ lastAct' = "deleteDone"
    /\ UNCHANGED <<recVars, dict, variant, keyGen, now, editVars, noteStatus,
                   saveTimeout, saveDue, strayTimers, histVars>>

\* The list request completes: notes[0] or a new note becomes the open note.
GetAllDone ==
    /\ txq # <<>> /\ Head(txq).op = "getAll"
    /\ currentNote' = openAfterDelete(store)
    /\ updateEditor(currentNote')
    /\ txq' = Superseded(Tail(txq))
    /\ BurstBroken
    /\ dict' = NoDict
    /\ lastAct' = "getAllDone"
    /\ UNCHANGED <<recVars, variant, storeVars, now, currentLanguage, noteStatus,
                   saveTimeout, saveDue, strayTimers, manualSince>>

NextSave ==
    \/ TitleInput
    \/ TextInput
    \/ LanguageChange
    \/ createNewNote
    \/ AutoSaveTimer
    \/ ManualSave
    \/ Tick
    \/ SelectNote
    \/ SaveDone
    \/ SaveFailed
    \/ GetDone

\* ------------------------------------------------------------------ speech session
\* checkInternetConnection(): navigator.onLine.
checkInternetConnectionAlways == TRUE

checkInternetConnection == onLine

\* event.error of the engine's error notification.
ErrorTypes == {"network", "no-speech", "aborted", "not-allowed", "audio-capture"}

\* The errors that end the session for good.
TerminalErrors == {"network", "not-allowed"}

\* The restart timers: onend's (100 ms), onerror's after no-speech (500 ms) and
\* after aborted (300 ms), and safeStartRecognition's retry (1000 ms).  They
\* are kept without their delays: a pending timer may fire at any time.
TimerKinds == {"onend", "noSpeech", "aborted", "retry"}
NoTimers == [k \in TimerKinds |-> 0]
TimerCount(tm) == tm["onend"] + tm["noSpeech"] + tm["aborted"] + tm["retry"]

NoCall == [start |-> "none", stop |-> FALSE]

\* No insertion so far.
NoPrev == [delta |-> <<>>, text |-> <<>>, sel |-> 0, run |-> 0]

NoObs ==
    [timer |-> "none", stale |-> FALSE, wasRecording |-> FALSE, wasOnline |-> TRUE,
     error |-> "none", lflBefore |-> 0, delta |-> <<>>, inserted |-> FALSE,
     preText |-> <<>>, preSel |-> 0, terminal |-> FALSE,
     nsPhase |-> "none", nsStarts |-> 0, notice |-> "none", prev |-> NoPrev,
     lang |-> "none"]

\* What a handler found and did starts empty with every handler, but for
\* terminal: a network or not-allowed error stopped the recording and the user
\* has not asked to start since; and for nsPhase and nsStarts: on a mobile
\* device a no-speech error came while recording ("error"), the engine's end
\* notification followed ("ended"), and the timer callbacks called the
\* engine's start that often since it did (2 stands for more).  The next error, end
\* or stop ends the phase.  prev is the last insertion of a transcript: its
\* delta, the text and the caret it left, and how many insertions in a row
\* found the text and the caret as the one before left them (2 stands for
\* more).  lang is recognition.lang, the language tag the engine object holds
\* ("none" while there is no engine object).
KeptObs ==
    [NoObs EXCEPT !.terminal = obs.terminal, !.nsPhase = obs.nsPhase,
                  !.nsStarts = obs.nsStarts, !.prev = obs.prev, !.lang = obs.lang]

NoPhase(o) == [o EXCEPT !.nsPhase = "none", !.nsStarts = 0]

\* The session state a handler starts from; ok turns FALSE when a bound of the
\* model is exceeded.
Sess ==
    [isRecording |-> isRecording,
     isRecognitionStarting |-> isRecognitionStarting,
     recognition |-> recognition,
     lastFinalizedLength |-> lastFinalizedLength,
     engine |-> engine,
     results |-> results,
     timers |-> timers,
     stale |-> stale,
     engineCall |-> NoCall,
     ok |-> TRUE]

\* The session state a handler leaves.
Commit(s) ==
    /\ s.ok
    /\ isRecording' = s.isRecording
    /\ isRecognitionStarting' = s.isRecognitionStarting
    /\ recognition' = s.recognition
    /\ lastFinalizedLength' = s.lastFinalizedLength
    /\ engine' = s.engine
    /\ results' = s.results
    /\ timers' = s.timers
    /\ stale' = s.stale
    /\ engineCall' = s.engineCall

\* recognition.start(): accepted by an engine that is at rest; otherwise it
\* throws InvalidStateError (the engine counts as started until it has emitted
\* its end notification).  A session starts with no results.
recognitionStart(s) ==
    IF s.engine = "idle"
    THEN [s EXCEPT !.engine = "starting", !.results = <<>>, !.engineCall.start = "ok"]
    ELSE [s EXCEPT !.engineCall.start = "threw"]

\* recognition.stop(): a listening engine returns what it has and ends, one
\* that has not started yet just ends; otherwise nothing happens.
recognitionStop(s) ==
    [s EXCEPT !.engine = IF @ = "listening" THEN "stopping"
                         ELSE IF @ = "starting" THEN "ending" ELSE @,
              !.engineCall.stop = TRUE]

\* setTimeout(callback, delay) of a restart timer.
setTimeout(s, k) ==
    IF TimerCount(s.timers) < MaxTimers
    THEN [s EXCEPT !.timers[k] = @ + 1]
    ELSE [s EXCEPT !.ok = FALSE]

stopRecordingAppNoGuard(s) ==
    LET s1 == [s EXCEPT !.isRecording = FALSE, !.isRecognitionStarting = FALSE]
        s2 == IF s1.recognition THEN recognitionStop(s1) ELSE s1
    IN [s2 EXCEPT !.lastFinalizedLength = 0, !.stale = s2.timers]

stopRecordingApp(s) ==
    IF ~s.isRecording THEN s
    ELSE LET s1 == [s EXCEPT !.isRecording = FALSE, !.isRecognitionStarting = FALSE]
             s2 == IF s1.recognition THEN recognitionStop(s1) ELSE s1
         IN [s2 EXCEPT !.lastFinalizedLength = 0, !.stale = s2.timers]

stopRecordingHybrid(s) ==
    IF s.recognition /\ s.isRecording
    THEN [recognitionStop(s) EXCEPT !.isRecording = FALSE, !.stale = s.timers]
    ELSE s

stopRecording(s) ==
    IF variant = "app" THEN stopRecordingApp(s) ELSE stopRecordingHybrid(s)

\* safeStartRecognition() of app.js; recognition.start() throws nothing but
\* InvalidStateError.
safeStartRecognitionNoRecordingCheck(s) ==
    IF s.isRecognitionStarting THEN s
    ELSE IF ~s.recognition THEN s
    ELSE LET s1 == recognitionStart([s EXCEPT !.isRecognitionStarting = TRUE])
         IN IF s1.engineCall.start = "threw"
            THEN setTimeout([s1 EXCEPT !.isRecognitionStarting = FALSE], "retry")
            ELSE s1

safeStartRecognition(s) ==
    IF s.isRecognitionStarting \/ ~s.isRecording THEN s
    ELSE IF ~s.recognition THEN s
    ELSE LET s1 == recognitionStart([s EXCEPT !.isRecognitionStarting = TRUE])
         IN IF s1.engineCall.start = "threw"
            THEN setTimeout([s1 EXCEPT !.isRecognitionStarting = FALSE], "retry")
            ELSE s1

\* startRecording(), after its first line (the note); the browser has the
\* speech API.
startRecordingAppNoGuard(s) ==
    IF ~checkInternetConnection THEN s
    ELSE safeStartRecognition([s EXCEPT !.recognition = TRUE,
                                        !.lastFinalizedLength = 0,
                                        !.isRecording = TRUE])

startRecordingApp(s) ==
    IF s.isRecording \/ s.isRecognitionStarting THEN s
    ELSE IF ~checkInternetConnection THEN s
    ELSE safeStartRecognition([s EXCEPT !.recognition = TRUE,
                                        !.lastFinalizedLength = 0,
                                        !.isRecording = TRUE])

startRecordingHybrid(s) ==
    IF ~checkInternetConnection THEN s
    ELSE LET s1 == recognitionStart([s EXCEPT !.recognition = TRUE])
         IN IF s1.engineCall.start = "threw" THEN s1
            ELSE [s1 EXCEPT !.isRecording = TRUE]

startRecording(s) ==
    IF variant = "app" THEN startRecordingApp(s) ELSE startRecordingHybrid(s)

\* recognition.onstart
onstart(s) ==
    IF variant = "app"
    THEN [s EXCEPT !.isRecognitionStarting = FALSE, !.lastFinalizedLength = 0]
    ELSE s

\* recognition.onerror
onerrorApp(s, e) ==
    LET s1 == [s EXCEPT !.isRecognitionStarting = FALSE]
    IN IF e = "network" THEN stopRecording(s1)
       ELSE IF e = "no-speech" /\ isMobileDevice
            THEN (IF s1.isRecording THEN setTimeout(s1, "noSpeech") ELSE s1)
       ELSE IF e = "aborted" /\ isMobileDevice /\ s1.isRecording
            THEN setTimeout(s1, "aborted")
       ELSE IF e = "not-allowed" THEN stopRecording(s1)
       ELSE s1

onerrorHybrid(s, e) == IF e = "no-speech" THEN s ELSE stopRecording(s)

\* recognition.onend
onendAppNoRestart(s) ==
    [s EXCEPT !.isRecognitionStarting = FALSE, !.lastFinalizedLength = 0]

onendApp(s) ==
    LET s1 == [s EXCEPT !.isRecognitionStarting = FALSE, !.lastFinalizedLength = 0]
    IN IF s1.isRecording THEN setTimeout(s1, "onend") ELSE s1

onendHybrid(s) ==
    IF s.isRecording /\ checkInternetConnection THEN setTimeout(s, "onend")
    ELSE IF s.isRecording /\ ~checkInternetConnection THEN stopRecording(s)
    ELSE s

\* The callbacks of the restart timers.
timerCallbackApp(s, k) ==
    IF k = "retry"
    THEN LET s1 == [s EXCEPT !.isRecognitionStarting = FALSE]
         IN IF s1.isRecording THEN safeStartRecognition(s1) ELSE s1
    ELSE safeStartRecognition(s)

timerCallbackHybrid(s, k) ==
    LET s1 == recognitionStart(s)
    IN IF s1.engineCall.start = "threw" THEN stopRecording(s1) ELSE s1

\* languageMap, and recognition.lang after startRecording(): the tag of the
\* current language once startRecording has passed its guards.
LanguageTag == [en |-> "en-US", hi |-> "hi-IN"]

langAfterStartRecording ==
    IF /\ checkInternetConnection
       /\ variant = "app" => (~isRecording /\ ~isRecognitionStarting)
    THEN LanguageTag[currentLanguage] ELSE obs.lang

\* if (!currentNote) createNewNote();
ensureNote ==
    IF currentNote = Null
    THEN /\ currentNote' = newNote(currentLanguage, now)
         /\ updateEditor(currentNote')
         /\ dict' = NoDict
         /\ txq' = Superseded(txq)
    ELSE UNCHANGED <<currentNote, edTitle, edText, selectionStart, dict, txq>>

\* A click on the record button (in the hybrid variant Ctrl/Cmd+R too).
RecordToggle ==
    /\ ensureNote
    /\ Commit(IF isRecording THEN stopRecording(Sess) ELSE startRecording(Sess))
    /\ lastAct' = IF isRecording THEN "stopRecording" ELSE "startRecording"
    /\ obs' = [NoPhase(KeptObs) EXCEPT !.wasRecording = isRecording, !.wasOnline = onLine,
                                       !.terminal = @ /\ isRecording,
                                       !.lang = IF isRecording THEN @
                                                ELSE langAfterStartRecording]
    /\ UNCHANGED <<variant, storeVars, now, currentLanguage, noteStatus, saveTimeout,
                   saveDue, strayTimers, histVars,
                   isMobileDevice, onLine, offlinePending>>

\* startRecording() of app.js called whatever the session is doing.
StartRequest ==
    /\ variant = "app"
    /\ ensureNote
    /\ Commit(startRecording(Sess))
    /\ lastAct' = "startRequest"
    /\ obs' = [KeptObs EXCEPT !.wasRecording = isRecording, !.wasOnline = onLine,
                              !.lflBefore = lastFinalizedLength,
                              !.lang = langAfterStartRecording]
    /\ UNCHANGED <<variant, storeVars, now, currentLanguage, noteStatus, saveTimeout,
                   saveDue, strayTimers, histVars,
                   isMobileDevice, onLine, offlinePending>>

\* stopRecording() called whatever the session is doing.
StopRequest ==
    /\ Commit(stopRecording(Sess))
    /\ lastAct' = "stopRequest"
    /\ obs' = [(IF isRecording THEN NoPhase(KeptObs) ELSE KeptObs)
                  EXCEPT !.wasRecording = isRecording, !.wasOnline = onLine]
    /\ UNCHANGED <<variant, storeVars, now, editVars, saveVars, histVars, dict,
                   isMobileDevice, onLine, offlinePending>>

\* The Escape key while recording.
EscapeKey ==
    /\ isRecording
    /\ Commit(stopRecording(Sess))
    /\ lastAct' = "escape"
    /\ obs' = [NoPhase(KeptObs) EXCEPT !.wasRecording = isRecording, !.wasOnline = onLine]
    /\ UNCHANGED <<variant, storeVars, now, editVars, saveVars, histVars, dict,
                   isMobileDevice, onLine, offlinePending>>

\* The engine's start notification.
OnStart ==
    /\ engine = "starting"
    /\ Commit(onstart([Sess EXCEPT !.engine = "listening"]))
    /\ lastAct' = "onstart"
    /\ obs' = [KeptObs EXCEPT !.wasRecording = isRecording]
    /\ UNCHANGED <<variant, storeVars, now, editVars, saveVars, histVars, dict,
                   isMobileDevice, onLine, offlinePending>>

\* What recognition.onerror shows the user: a status message (showStatus), a
\* hint in the live transcription box, or nothing (the console only).
onerrorNotice(e) ==
    IF variant = "hybrid" THEN "status"
    ELSE IF e \in {"network", "not-allowed"} THEN "status"
    ELSE IF e = "no-speech" /\ isMobileDevice THEN "live"
    ELSE "none"

\* The engine's error notification; its end notification follows.
OnError ==
    /\ engine \in {"starting", "listening"}
    /\ \E e \in ErrorTypes :
         /\ Commit(IF variant = "app"
                   THEN onerrorApp([Sess EXCEPT !.engine = "ending"], e)
                   ELSE onerrorHybrid([Sess EXCEPT !.engine = "ending"], e))
         /\ obs' = [KeptObs EXCEPT !.wasRecording = isRecording, !.error = e,
                                   !.terminal = @ \/ (isRecording /\ e \in TerminalErrors),
                                   !.nsPhase = IF e = "no-speech" /\ isMobileDevice
                                                  /\ isRecording
                                               THEN "error" ELSE "none",
                                   !.nsStarts = 0,
                                   !.notice = onerrorNotice(e)]
    /\ lastAct' = "onerror"
    /\ UNCHANGED <<variant, storeVars, now, editVars, saveVars, histVars, dict,
                   isMobileDevice, onLine, offlinePending>>

\* The engine's end notification: after a stop or an error, or when the engine
\* ends the session by itself.
OnEnd ==
    /\ engine \in {"listening", "stopping", "ending"}
    /\ Commit(IF variant = "app"
              THEN onendApp([Sess EXCEPT !.engine = "idle"])
              ELSE onendHybrid([Sess EXCEPT !.engine = "idle"]))
    /\ lastAct' = "onend"
    /\ obs' = [KeptObs EXCEPT !.wasRecording = isRecording, !.wasOnline = onLine,
                              !.nsPhase = IF @ = "error" THEN "ended" ELSE "none",
                              !.nsStarts = IF obs.nsPhase = "error" THEN @ ELSE 0]
    /\ UNCHANGED <<variant, storeVars, now, editVars, saveVars, histVars, dict,
                   isMobileDevice, onLine, offlinePending>>

\* A restart timer expires: one armed before the last stopRecording (stale) or
\* one armed since.
TimerFires ==
    /\ \E k \in TimerKinds, st \in BOOLEAN :
         /\ IF st THEN stale[k] > 0 ELSE timers[k] > stale[k]
         /\ LET s0 == [Sess EXCEPT !.timers[k] = @ - 1,
                                   !.stale[k] = IF st THEN @ - 1 ELSE @]
            IN Commit(IF variant = "app" THEN timerCallbackApp(s0, k)
                      ELSE timerCallbackHybrid(s0, k))
         /\ obs' = [KeptObs EXCEPT !.timer = k, !.stale = st,
                                   !.wasRecording = isRecording,
                                   !.nsStarts = IF obs.nsPhase = "ended"
                                                   /\ engineCall'.start # "none"
                                                THEN Min(@ + 1, 2) ELSE @]
    /\ lastAct' = "timer"
    /\ UNCHANGED <<variant, storeVars, now, editVars, saveVars, histVars, dict,
                   isMobileDevice, onLine, offlinePending>>

\* The connection drops: navigator.onLine turns false and an 'offline' event
\* is queued.
GoOffline ==
    /\ onLine
    /\ onLine' = FALSE
    /\ offlinePending' = TRUE
    /\ lastAct' = "goOffline"
    /\ engineCall' = NoCall
    /\ obs' = KeptObs
    /\ UNCHANGED <<variant, storeVars, now, editVars, saveVars, histVars, dict,
                   isMobileDevice, isRecording, isRecognitionStarting, recognition,
                   lastFinalizedLength, engine, results, timers, stale>>

\* The 'offline' listener: if (isRecording) stopRecording().
offlineListenerNoStop(s) == s

offlineListener(s) == IF s.isRecording THEN stopRecording(s) ELSE s

OfflineEvent ==
    /\ offlinePending
    /\ offlinePending' = FALSE
    /\ Commit(offlineListener(Sess))
    /\ lastAct' = "offline"
    /\ obs' = [(IF isRecording THEN NoPhase(KeptObs) ELSE KeptObs) EXCEPT !.wasRecording = isRecording, !.wasOnline = onLine]
    /\ UNCHANGED <<variant, storeVars, now, editVars, saveVars, histVars, dict,
                   isMobileDevice, onLine>>

\* The connection returns; the 'online' listener only shows a message.
GoOnline ==
    /\ ~onLine
    /\ onLine' = TRUE
    /\ lastAct' = "goOnline"
    /\ engineCall' = NoCall
    /\ obs' = KeptObs
    /\ UNCHANGED <<variant, storeVars, now, editVars, saveVars, histVars, dict,
                   isMobileDevice, isRecording, isRecognitionStarting, recognition,
                   lastFinalizedLength, engine, results, timers, stale,
                   offlinePending>>

NextRec ==
    \/ RecordToggle
    \/ EscapeKey
    \/ OnStart
    \/ OnError
    \/ OnEnd
    \/ TimerFires
    \/ GoOffline
    \/ OfflineEvent
    \/ GoOnline

\* ------------------------------------------------------------------ transcript assembly (app.js)
\* What the engine hears: the transcript of a slot; later slots of a session
\* come with a leading space.
Transcripts == {<<"a">>, <<" ", "b">>}

\* One element of event.results; ins is history: how often the slot's
\* transcript went into the note.
Slot(t, f) == [transcript |-> t, isFinal |-> f, ins |-> 0]

LastIsFinal(res) == res = <<>> \/ res[Len(res)].isFinal

\* event.results of the next result event.  A continuous session (desktop)
\* finalizes its slots in order and keeps the final ones as they are: it adds a
\* final slot, adds an interim slot while it listens, or finalizes the interim
\* slot.  A one-shot session (mobile) delivers one final slot.
EngineResults(res, eng, continuous) ==
    IF ~continuous
    THEN {<<Slot(t, TRUE)>> : t \in IF res = <<>> THEN Transcripts ELSE {}}
    ELSE LET room == LastIsFinal(res) /\ Len(res) < MaxSlots
         IN {Append(res, Slot(t, TRUE)) : t \in IF room THEN Transcripts ELSE {}}
            \cup {Append(res, Slot(t, FALSE)) :
                      t \in IF room /\ eng = "listening" THEN Transcripts ELSE {}}
            \cup {[res EXCEPT ![Len(res)] = Slot(t, TRUE)] :
                      t \in IF ~LastIsFinal(res) THEN Transcripts ELSE {}}

\* String.prototype.trim and substring(from)
IsSpace(c) == c \in {" ", "\n"}

RECURSIVE TrimStart(_)
TrimStart(s) == IF s # <<>> /\ IsSpace(Head(s)) THEN TrimStart(Tail(s)) ELSE s

RECURSIVE TrimEnd(_)
TrimEnd(s) ==
    IF s # <<>> /\ IsSpace(s[Len(s)]) THEN TrimEnd(SubSeq(s, 1, Len(s) - 1)) ELSE s

Trim(s) == TrimEnd(TrimStart(s))

substring(s, from) == SubSeq(s, from + 1, Len(s))

\* finalText of handleDesktopResults: transcript + ' ' of every final slot.
RECURSIVE FinalText(_)
FinalText(res) ==
    IF res = <<>> THEN <<>>
    ELSE (IF Head(res).isFinal THEN Head(res).transcript \o <<" ">> ELSE <<>>)
             \o FinalText(Tail(res))

\* The splice both handlers make at the caret; ed is the text area's value
\* and selectionStart.
insertTranscriptNoSpacer(ed, delta) ==
    LET cursorPos == IF ed.sel # 0 THEN ed.sel ELSE Len(ed.text)
        textBefore == SubSeq(ed.text, 1, cursorPos)
        textAfter == SubSeq(ed.text, cursorPos + 1, Len(ed.text))
    IN [text |-> textBefore \o delta \o <<" ">> \o textAfter,
        sel |-> cursorPos + Len(delta) + 1]

insertTranscriptCaretAtEnd(ed, delta) ==
    LET cursorPos == IF ed.sel # 0 THEN ed.sel ELSE Len(ed.text)
        textBefore == SubSeq(ed.text, 1, cursorPos)
        textAfter == SubSeq(ed.text, cursorPos + 1, Len(ed.text))
        needsSpace == Len(textBefore) > 0 /\ textBefore[Len(textBefore)] \notin {" ", "\n"}
        spacer == IF needsSpace THEN <<" ">> ELSE <<>>
    IN [text |-> textBefore \o spacer \o delta \o <<" ">> \o textAfter,
        sel |-> Len(ed.text) + Len(spacer) + Len(delta) + 1]

insertTranscript(ed, delta) ==
    LET cursorPos == IF ed.sel # 0 THEN ed.sel ELSE Len(ed.text)
        textBefore == SubSeq(ed.text, 1, cursorPos)
        textAfter == SubSeq(ed.text, cursorPos + 1, Len(ed.text))
        needsSpace == Len(textBefore) > 0 /\ textBefore[Len(textBefore)] \notin {" ", "\n"}
        spacer == IF needsSpace THEN <<" ">> ELSE <<>>
    IN [text |-> textBefore \o spacer \o delta \o <<" ">> \o textAfter,
        sel |-> cursorPos + Len(spacer) + Len(delta) + 1]

\* The text and the caret are as the last insertion left them.
InsertedLast == obs.prev.run > 0 /\ edText = obs.prev.text /\ selectionStart = obs.prev.sel

\* newText of handleDesktopResults.
newFinalTextFromStart(finalText, lfl) == Trim(finalText)

newFinalText(finalText, lfl) == Trim(substring(finalText, lfl))

\* handleDesktopResults(event): the editor, lastFinalizedLength and the slots
\* after it, and what it inserted.
handleDesktopResults(res, lfl, ed) ==
    LET finalText == FinalText(res)
        grows == Len(finalText) > lfl
        newText == newFinalText(finalText, lfl)
        inserts == grows /\ newText # <<>> /\ currentNote # Null
    IN [ed |-> IF inserts THEN insertTranscript(ed, newText) ELSE ed,
        lfl |-> IF grows THEN Len(finalText) ELSE lfl,
        res |-> [i \in 1..Len(res) |->
                    IF inserts /\ res[i].isFinal
                       /\ Len(FinalText(SubSeq(res, 1, i - 1))) >= lfl
                    THEN [res[i] EXCEPT !.ins = Min(@ + 1, 2)] ELSE res[i]],
        delta |-> IF inserts THEN newText ELSE <<>>,
        inserted |-> inserts]

\* handleMobileResults(event): every final slot of the event is inserted.
MobileInsertsInterimToo(slot) ==
    Trim(slot.transcript) # <<>> /\ currentNote # Null

MobileInserts(slot) ==
    slot.isFinal /\ Trim(slot.transcript) # <<>> /\ currentNote # Null

RECURSIVE MobileLoop(_, _, _)
MobileLoop(res, i, ed) ==
    IF i > Len(res) THEN ed
    ELSE MobileLoop(res, i + 1,
                    IF MobileInserts(res[i])
                    THEN insertTranscript(ed, Trim(res[i].transcript)) ELSE ed)

handleMobileResults(res, lfl, ed) ==
    LET hits == {i \in 1..Len(res) : MobileInserts(res[i])}
    IN [ed |-> MobileLoop(res, 1, ed),
        lfl |-> lfl,
        res |-> [i \in 1..Len(res) |->
                    IF i \in hits THEN [res[i] EXCEPT !.ins = Min(@ + 1, 2)] ELSE res[i]],
        delta |-> IF hits = {} THEN <<>>
                  ELSE Trim(res[CHOOSE i \in hits : \A j \in hits : j <= i].transcript),
        inserted |-> hits # {}]

\* History of a dictation: the text it started from, with the caret at its
\* end, and the transcripts of the final slots inserted since, as the engine
\* gave them.  It starts again after two utterances.
RECURSIVE FinalTranscripts(_)
FinalTranscripts(res) ==
    IF res = <<>> THEN <<>>
    ELSE (IF MobileInserts(Head(res)) THEN <<Head(res).transcript>> ELSE <<>>)
             \o FinalTranscripts(Tail(res))

Dictated(d, res) ==
    IF d.active /\ Len(d.utts) < 2
    THEN [d EXCEPT !.utts = @ \o FinalTranscripts(res)]
    ELSE IF selectionStart = Len(edText)
         THEN [active |-> TRUE, base |-> edText, utts |-> FinalTranscripts(res)]
         ELSE NoDict

\* recognition.onresult (app.js) for an event with the slots res.
onresult(res) ==
    LET ed == [text |-> edText, sel |-> selectionStart]
        h == IF isMobileDevice
             THEN handleMobileResults(res, lastFinalizedLength, ed)
             ELSE handleDesktopResults(res, lastFinalizedLength, ed)
    IN /\ results' = h.res
       /\ lastFinalizedLength' = h.lfl
       /\ edText' = h.ed.text
       /\ edTitle' = edTitle
       /\ selectionStart' = h.ed.sel
       /\ currentNote' = IF h.inserted
                         THEN [currentNote EXCEPT !.text = h.ed.text]
                         ELSE currentNote
       /\ IF h.inserted
          THEN scheduleAutoSave /\ BurstEdit
          ELSE UNCHANGED <<noteStatus, saveTimeout, saveDue, strayTimers,
                           burst, manualSince>>
       /\ obs' = [KeptObs EXCEPT !.wasRecording = isRecording,
                               !.lflBefore = lastFinalizedLength,
                               !.delta = h.delta, !.inserted = h.inserted,
                               !.preText = edText, !.preSel = selectionStart,
                               !.prev = IF ~h.inserted THEN @
                                        ELSE [delta |-> h.delta, text |-> h.ed.text,
                                              sel |-> h.ed.sel,
                                              run |-> IF InsertedLast
                                                      THEN Min(@.run + 1, 2) ELSE 1]]
       /\ dict' = IF ~h.inserted THEN dict
                  ELSE IF isMobileDevice THEN Dictated(dict, res) ELSE NoDict
       /\ engineCall' = NoCall
       /\ lastAct' = "onresult"
       /\ UNCHANGED <<variant, storeVars, now, currentLanguage, txq,
                      isMobileDevice, isRecording, isRecognitionStarting, recognition,
                      onLine, offlinePending, timers, stale>>

\* The engine's result notification.
OnResult ==
    /\ variant = "app"
    /\ engine \in {"listening", "stopping"}
    /\ Len(edText) <= MaxText
    /\ \E res \in EngineResults(results, engine, ~isMobileDevice) : onresult(res)
    /\ engine' = IF engine = "stopping" \/ isMobileDevice THEN "ending" ELSE "listening"

\* A result notification whose event holds no final slot, given to the
\* handler of either mode: one interim slot, while the session has finalized
\* nothing.  The session goes on.
OnInterimResult ==
    /\ variant = "app"
    /\ engine = "listening"
    /\ \A i \in 1..Len(results) : ~results[i].isFinal
    /\ \E t \in Transcripts : onresult(<<Slot(t, FALSE)>>)
    /\ engine' = engine

\* Where the user puts the caret: the start of the text, after its first
\* character, or its end.
CaretPositions(text) == {0, 1, Len(text)} \cap 0..Len(text)

\* The user puts the caret somewhere in the text area.
MoveCursor ==
    /\ \E p \in CaretPositions(edText) : p # selectionStart /\ selectionStart' = p
    /\ dict' = NoDict
    /\ lastAct' = "moveCursor"
    /\ engineCall' = NoCall
    /\ obs' = [KeptObs EXCEPT !.prev = NoPrev]
    /\ UNCHANGED <<variant, storeVars, now, currentNote, currentLanguage, edTitle,
                   edText, saveVars, histVars,
                   isMobileDevice, isRecording, isRecognitionStarting, recognition,
                   lastFinalizedLength, engine, results, onLine, offlinePending,
                   timers, stale>>

\* The user types the existing text before the first recording.
TypeExistingText == ~recognition /\ TextInput

NextAsm ==
    \/ RecordToggle
    \/ OnStart
    \/ OnResult
    \/ OnEnd
    \/ TimerFires
    \/ TypeExistingText
    \/ MoveCursor

InitCommon ==
    /\ variant \in {"app", "hybrid"}
    /\ store = <<>>
    /\ keyGen = 0
    /\ now = 1
    /\ deletedIds = {}
    /\ lastAct = "init"
    /\ currentLanguage = "en"
    /\ currentNote = newNote("en", 1)
    /\ edTitle = <<>>
    /\ edText = <<>>
    /\ selectionStart = 0
    /\ noteStatus = "none"
    /\ saveTimeout = "none"
    /\ saveDue = 0
    /\ strayTimers = <<>>
    /\ txq = <<>>
    /\ burst = NoBurst
    /\ manualSince = FALSE
    /\ isRecording = FALSE
    /\ isRecognitionStarting = FALSE
    /\ recognition = FALSE
    /\ lastFinalizedLength = 0
    /\ engine = "idle"
    /\ results = <<>>
    /\ onLine = TRUE
    /\ offlinePending = FALSE
    /\ timers = NoTimers
    /\ stale = NoTimers
    /\ engineCall = NoCall
    /\ obs = NoObs
    /\ dict = NoDict

\* The gateway and the editor do not depend on the device.
Init == InitCommon /\ isMobileDevice = FALSE

\* initialize() runs detectMobile(); the hybrid variant has no device modes.
InitRec == InitCommon /\ isMobileDevice \in (IF variant = "app" THEN BOOLEAN ELSE {FALSE})

InitAsm == InitCommon /\ variant = "app" /\ isMobileDevice \in BOOLEAN

NextStore == GwSave \/ GwDelete \/ GwExport

SpecStore == Init /\ [][NextStore]_vars

SpecSave == Init /\ [][NextSave]_vars

\* Saves of the one note the editor opens with: the title is edited, Ctrl/Cmd+S
\* and the autosave timer call autoSave(), and the store answers each request.
KeydownSave == ManualSaveWithin(MaxRecords)

SaveTimeoutFires == AutoSaveTimerWithin(MaxRecords)

NextOneNote ==
    \/ TitleInput
    \/ KeydownSave
    \/ SaveTimeoutFires
    \/ Tick
    \/ SaveDone
    \/ SaveFailed

SpecOneNote == Init /\ [][NextOneNote]_vars

\* A note is saved, edited again and deleted while the program goes on: the
\* autosave timer, Ctrl/Cmd+S and the store's answers interleave with the
\* awaits of the delete handlers.
NextDeleteAsync ==
    \/ TitleInput
    \/ AutoSaveTimer
    \/ ManualSave
    \/ Tick
    \/ SaveDone
    \/ ConfirmDeleteRequest
    \/ ListItemDeleteRequest
    \/ DeleteDone
    \/ GetAllDone

\* Only app.js has delete handlers.
InitDeleteAsync == Init /\ variant = "app"

SpecDeleteAsync == InitDeleteAsync /\ [][NextDeleteAsync]_vars

\* The debounce on its own: edits, language changes, new notes, manual saves,
\* the timer and the store completing saves.
NextDebounce ==
    \/ TitleInput
    \/ TextInput
    \/ LanguageChange
    \/ createNewNote
    \/ AutoSaveTimer
    \/ ManualSave
    \/ Tick
    \/ SaveDone

SpecDebounce == Init /\ [][NextDebounce]_vars

SpecRec == InitRec /\ [][NextRec]_vars

SpecAsm == InitAsm /\ [][NextAsm]_vars

\* Dictation with autosave (app.js): one engine session with its result events,
\* the debounce timer and the store completing requests, interleaved with the
\* user's new notes, note switches and stop.  Time passes, a timer that is due
\* fires and a store request completes, so these are weakly fair; what the
\* user and the engine do is not.
NextPersist ==
    \/ RecordToggle
    \/ OnStart
    \/ OnResult
    \/ createNewNote
    \/ SelectNote
    \/ GetDone
    \/ Tick
    \/ AutoSaveTimer
    \/ SaveDone

FairPersist ==
    /\ WF_vars(Tick)
    /\ WF_vars(AutoSaveTimer)
    /\ WF_vars(SaveDone)
    /\ WF_vars(GetDone)

\* Deleting (app.js).  initialize() finds the notes of earlier sessions in the
\* store: up to MaxStored records with keys from 1, whose timestamps are the
\* times of their last saves, in any order, and opens notes[0].
MaxStored == 3

StoredNote(k, t) ==
    [id |-> k, title |-> <<"t">>, text |-> <<"x">>, language |-> "en",
     timestamp |-> t, tags |-> <<>>]

EarlierStores ==
    UNION {{[k \in 1..n |-> StoredNote(k, ts[k])] :
               ts \in {f \in [1..n -> 1..MaxStored] :
                          \A i, j \in 1..n : i # j => f[i] # f[j]}} :
           n \in 0..MaxStored}

InitDelete ==
    /\ variant = "app"
    /\ isMobileDevice = FALSE
    /\ store \in EarlierStores
    /\ keyGen = Len(store)
    /\ now = MaxStored + 1
    /\ deletedIds = {}
    /\ lastAct = "init"
    /\ currentLanguage = "en"
    /\ currentNote = IF getAllNotes(store) # <<>> THEN getAllNotes(store)[1]
                     ELSE newNote("en", now)
    /\ edTitle = currentNote.title
    /\ edText = currentNote.text
    /\ selectionStart = Len(edText)
    /\ noteStatus = "none"
    /\ saveTimeout = "none"
    /\ saveDue = 0
    /\ strayTimers = <<>>
    /\ txq = <<>>
    /\ burst = NoBurst
    /\ manualSince = FALSE
    /\ isRecording = FALSE
    /\ isRecognitionStarting = FALSE
    /\ recognition = FALSE
    /\ lastFinalizedLength = 0
    /\ engine = "idle"
    /\ results = <<>>
    /\ onLine = TRUE
    /\ offlinePending = FALSE
    /\ timers = NoTimers
    /\ stale = NoTimers
    /\ engineCall = NoCall
    /\ obs = NoObs
    /\ dict = NoDict

NextDelete ==
    \/ confirmDelete
    \/ ListItemDelete
    \/ createNewNote
    \/ SelectNote
    \/ GetDone

SpecDelete == InitDelete /\ [][NextDelete]_vars

\* The session of both variants with stopRecording() as an entry point of its
\* own.
NextStop ==
    \/ NextRec
    \/ StopRequest

SpecStop == InitRec /\ [][NextStop]_vars

\* The session of both variants with the event loop running every restart
\* timer that is due: a timer that has been armed fires.
FairRestart == WF_vars(TimerFires)

SpecRestart == InitRec /\ [][NextRec]_vars /\ FairRestart

\* The session of app.js with result events that hold no final slot in either
\* mode.
NextInterim ==
    \/ RecordToggle
    \/ OnStart
    \/ OnResult
    \/ OnInterimResult
    \/ OnEnd
    \/ TimerFires

SpecInterim == InitAsm /\ [][NextInterim]_vars

\* What arms the autosave timer: edits of the text, language changes and
\* (app.js) transcript insertions, with time passing and the timer firing.
NextTimers ==
    \/ TextInput
    \/ LanguageChange
    \/ RecordToggle
    \/ OnStart
    \/ OnResult
    \/ Tick
    \/ AutoSaveTimer

\* app.js on a mobile device (its desktop handler arms the timer by the same
\* scheduleAutoSave call) and the hybrid variant.
InitTimers == InitCommon /\ isMobileDevice = (variant = "app")

SpecTimers == InitTimers /\ [][NextTimers]_vars

\* The session of app.js with the language selector in use.
NextLang ==
    \/ RecordToggle
    \/ OnStart
    \/ OnError
    \/ OnEnd
    \/ TimerFires
    \/ LanguageChange

SpecLang == InitAsm /\ [][NextLang]_vars

\* The session of app.js with startRecording() as an entry point of its own.
NextStart ==
    \/ RecordToggle
    \/ StartRequest
    \/ OnStart
    \/ OnResult
    \/ OnError
    \/ OnEnd
    \/ TimerFires

SpecStart == InitAsm /\ [][NextStart]_vars

SpecPersist == InitAsm /\ [][NextPersist]_vars /\ FairPersist

C2_ManualSaveCancelsTimer == ~(lastAct = "autoSave:timer" /\ manualSince)

\* C3: app.js: the engine ends while isRecording is true (arming the 100 ms
\* restart timer) and stopRecording runs before the timer fires, with no start
\* request since: the timer's callback issues no engine start and isRecording
\* stays false.
C3_StopInWindowPreventsRestart ==
    (variant = "app" /\ lastAct = "timer" /\ obs.timer = "onend"
         /\ obs.stale /\ ~obs.wasRecording)
        => (engineCall.start = "none" /\ ~isRecording)

C3_StaleRestartTimerFired ==
    /\ variant = "app" /\ lastAct = "timer" /\ obs.timer = "onend"
    /\ obs.stale /\ ~obs.wasRecording
    /\ engineCall.start = "none" /\ ~isRecording

\* C4: hybrid variant: the restart armed by the end notification re-checks the
\* recording flag when its delay expires: with a stopRecording in the window
\* and isRecording false, the timer's callback invokes no engine start.
C4_HybridRestartRechecksFlag ==
    (variant = "hybrid" /\ lastAct = "timer" /\ obs.timer = "onend"
         /\ obs.stale /\ ~obs.wasRecording)
        => engineCall.start = "none"

\* C5: a startRecording request made while navigator.onLine is false invokes no
\* engine start and leaves isRecording (and isRecognitionStarting) false.
C5_OfflineStartIsGated ==
    (lastAct = "startRecording" /\ ~obs.wasOnline)
        => (engineCall.start = "none" /\ ~isRecording /\ ~isRecognitionStarting)

C5_OfflineStartRequested ==
    lastAct = "startRecording" /\ ~obs.wasOnline /\ recognition /\ engine # "idle"

\* C6: desktop mode: a result event whose cumulative final text is longer than
\* lastFinalizedLength inserts exactly the trimmed part of the final text beyond
\* lastFinalizedLength, before the caret and followed by one space, and sets
\* lastFinalizedLength to the length of the final text.
C6_DesktopInsertsNewSuffix ==
    (lastAct = "onresult" /\ ~isMobileDevice
         /\ Len(FinalText(results)) > obs.lflBefore)
        => LET ft == FinalText(results)
               suffix == Trim(SubSeq(ft, obs.lflBefore + 1, Len(ft)))
           IN /\ obs.delta = suffix
              /\ lastFinalizedLength = Len(ft)
              /\ SubSeq(edText, selectionStart - Len(suffix), selectionStart)
                     = suffix \o <<" ">>
              /\ Len(edText) - Len(obs.preText) \in {Len(suffix) + 1, Len(suffix) + 2}

\* The second event of a session whose final text grew from "a " to "a  b ":
\* only "b" was inserted.
C6_SecondEventInsertsOnlyNew ==
    /\ lastAct = "onresult" /\ ~isMobileDevice
    /\ FinalText(results) = <<"a", " ", " ", "b", " ">>
    /\ obs.lflBefore = 2
    /\ obs.delta = <<"b">>
    /\ edText = <<"a", " ", "b", " ">>

\* C7: desktop mode: within one engine session the transcript of each final
\* slot goes into the note at most once.
C7_SlotInsertedAtMostOnce ==
    (variant = "app" /\ ~isMobileDevice)
        => \A i \in 1..Len(results) : results[i].ins <= 1

Spacer(base) ==
    IF base # <<>> /\ base[Len(base)] \notin {" ", "\n"} THEN <<" ">> ELSE <<>>

\* C8: mobile mode, caret at the end of the existing text: after two final
\* utterances u1, u2 the text is the existing text, one space if that text is
\* not empty and does not end in a space or newline, trimmed u1, one space,
\* trimmed u2 and one space.
C8_MobileTwoUtterances ==
    (isMobileDevice /\ dict.active /\ Len(dict.utts) = 2)
        => edText = dict.base \o Spacer(dict.base) \o Trim(dict.utts[1]) \o <<" ">>
                        \o Trim(dict.utts[2]) \o <<" ">>

C8_TwoUtterancesAfterText ==
    /\ isMobileDevice /\ dict.active /\ Len(dict.utts) = 2
    /\ dict.base = <<"<">>
    /\ edText = <<"<", " ", "a", " ", "b", " ">>

\* C8 as stated: the existing text is followed by u1 at once.
C8_MobileTwoUtterancesAsStated ==
    (isMobileDevice /\ dict.active /\ Len(dict.utts) = 2)
        => edText = dict.base \o Trim(dict.utts[1]) \o <<" ">>
                        \o Trim(dict.utts[2]) \o <<" ">>

ListedIds == {getAllNotes(store)[i].id : i \in 1..Len(getAllNotes(store))}

\* C9: list() never returns a note whose id has been deleted, for all sequences
\* of save (insert, or update at any previously assigned id), delete and list.
C9_ListNeverReturnsDeleted == ListedIds \cap deletedIds = {}

\* C10: whenever the store is non-empty, the first element of list() is the
\* note that was saved most recently (it carries the greatest save time).
C10_MostRecentlySavedFirst ==
    DOMAIN store # {} =>
        \A k \in DOMAIN store :
            getAllNotes(store)[1].timestamp >= store[k].timestamp

\* C11: the id of a note is unique and stable: the open note takes an id only
\* when a save of that very note completes (so it never carries the id of a
\* different note's record), and the id it has stays as long as it is open.
C11_IdUniqueAndStable ==
    [][(currentNote # Null /\ currentNote' # Null)
         => /\ (currentNote.id = NullId /\ currentNote'.id # NullId)
                 => (txq # <<>> /\ Head(txq).op \in {"put", "add"} /\ Head(txq).open)
            /\ (currentNote.id # NullId /\ lastAct' \notin {"createNewNote", "getDone"})
                 => currentNote'.id = currentNote.id]_vars

\* What the handlers insert for a transcript, and whether a text holds it.
Deltas == {Trim(t) : t \in Transcripts}

Contains(text, d) ==
    \E i \in 1..(Len(text) - Len(d) + 1) : SubSeq(text, i, i + Len(d) - 1) = d

Persisted(d) == \E k \in DOMAIN store : Contains(store[k].text, sanitizeInput(d))

\* The autosave timer is due and only the bounds of the model hold its save back.
SaveHeldBack ==
    /\ saveTimeout = "armed" /\ saveDue = 0 /\ currentNote # Null
    /\ now >= MaxClock \/ (currentNote.id = NullId /\ keyGen + PendingAdds >= MaxNotes)

\* C12: every transcript insertion is eventually persisted: once a delta is
\* inserted into the open note, the store eventually holds a record whose text
\* contains it, whatever the user does afterwards.
C12_InsertionEventuallyPersisted ==
    \A d \in Deltas :
        (lastAct = "onresult" /\ obs.inserted /\ obs.delta = d)
            ~> (Persisted(d) \/ SaveHeldBack)

\* C13: a network or not-allowed error received while recording leaves
\* isRecording false, and from then until the user asks to start again no
\* handler (end notification, restart or retry timer) calls the engine's start.
C13_TerminalErrorEndsSession ==
    /\ (lastAct = "onerror" /\ obs.wasRecording /\ obs.error \in TerminalErrors)
           => ~isRecording
    /\ obs.terminal => (~isRecording /\ engineCall.start = "none")

\* C14: on a mobile device (app.js) a no-speech error received while recording
\* leads to one restart attempt: once the end notification has followed the
\* error, and until the engine terminates again, the timer callbacks call the
\* engine's start at most once.
C14_NoSpeechRestartsOnce == obs.nsStarts <= 1

\* C15: the offline listener leaves isRecording false, and whenever the
\* connection is off and the offline notification has been handled,
\* isRecording is false.
C15_OfflineForcesStop ==
    /\ lastAct = "offline" => ~isRecording
    /\ (~onLine /\ ~offlinePending) => ~isRecording

\* The offline listener has stopped a recording and the connection is still off.
C15_StoppedByOffline ==
    lastAct = "offline" /\ obs.wasRecording /\ ~onLine /\ ~isRecording

\* C15 as stated: isRecording is false in every state whose connectivity flag
\* is off, the states before the listener has run included.
C15_OfflineImpliesNotRecording ==
    /\ lastAct = "offline" => ~isRecording
    /\ ~onLine => ~isRecording

\* C16: startRecording() called while isRecording or isRecognitionStarting is
\* true calls no engine start and leaves isRecording, isRecognitionStarting
\* and lastFinalizedLength as they are.
C16_DuplicateStartIsNoOp ==
    [][(lastAct' = "startRequest" /\ (isRecording \/ isRecognitionStarting))
         => /\ engineCall'.start = "none"
            /\ isRecording' = isRecording
            /\ isRecognitionStarting' = isRecognitionStarting
            /\ lastFinalizedLength' = lastFinalizedLength]_vars

\* startRecording() was called while listening, after a result was finalized.
C16_StartWhileListening ==
    /\ lastAct = "startRequest" /\ obs.wasRecording
    /\ engine = "listening" /\ obs.lflBefore > 0

\* C17: every failure is surfaced: every error notification of the speech
\* engine shows the user something.
C17_EveryErrorIsSurfaced == lastAct = "onerror" => obs.notice # "none"

\* C18: delete fallback: after the open note is deleted, the open note is the
\* remaining note with the greatest timestamp, or a fresh blank note with no
\* id if no notes remain.
C18_FallbackIsMostRecentlyModified ==
    (lastAct = "confirmDelete" /\ currentNote # Null)
        => IF store = <<>>
           THEN currentNote.id = NullId /\ currentNote.title = <<>>
                    /\ currentNote.text = <<>>
           ELSE /\ currentNote.id \in DOMAIN store
                /\ \A k \in DOMAIN store :
                       store[k].timestamp <= store[currentNote.id].timestamp

\* C19: delete is idempotent at the gateway: deleteNote(id) for an id that is
\* not in the store (deleted before, or never assigned) leaves the store and
\* the list as they are.
C19_DeleteAbsentChangesNothing ==
    [][lastAct' = "gwDeleteAbsent"
         => store' = store /\ getAllNotes(store') = getAllNotes(store)]_vars

\* An id was deleted a second time while another note is stored.
C19_DeletedTwice ==
    lastAct = "gwDeleteAbsent" /\ deletedIds # {} /\ DOMAIN store # {}

\* C20: export round trip: parsing the exported JSON document gives, for
\* every stored note, the title, text, language, timestamp and tags as they
\* are stored, in the order of the list.
C20_ExportRoundTrip ==
    lastAct = "gwExport"
        => LET notes == getAllNotes(store)
               back == parseDocument(exportDocument(notes))
           IN /\ Len(back) = Len(notes)
              /\ \A i \in 1..Len(notes) :
                    /\ back[i].title = notes[i].title
                    /\ back[i].text = notes[i].text
                    /\ back[i].language = notes[i].language
                    /\ back[i].timestamp = notes[i].timestamp
                    /\ back[i].tags = notes[i].tags

\* Two notes were exported, one with a text that JSON writes with escapes and
\* one with a text that sanitizeInput rewrote at save.
C20_ExportedEscapedTexts ==
    /\ lastAct = "gwExport"
    /\ \E j, k \in DOMAIN store :
         /\ store[j].text = <<"\"", "\\">>
         /\ store[k].text = <<"&", "l", "t", ";", "y">>

\* C21: stop is idempotent: stopRecording() called while isRecording is false
\* changes no session state, calls no engine stop and arms no timer.
C21_StopWhenStoppedIsNoOp ==
    [][(lastAct' = "stopRequest" /\ ~isRecording)
         => /\ isRecording' = isRecording
            /\ isRecognitionStarting' = isRecognitionStarting
            /\ lastFinalizedLength' = lastFinalizedLength
            /\ engine' = engine
            /\ ~engineCall'.stop
            /\ timers' = timers]_vars

\* stopRecording() was called while stopped, with the engine still ending its
\* session.
C21_StopCalledWhileStopped ==
    lastAct = "stopRequest" /\ ~obs.wasRecording /\ recognition /\ engine = "stopping"

\* C22: an insertion splices at the caret: for the text t and the caret c the
\* event found, c = 0 with a non-empty t included, the text after inserting
\* delta d is t[0..c), the spacer of t[0..c), d, one space and t[c..).
C22_InsertionSplicesAtCursor ==
    (lastAct = "onresult" /\ obs.inserted)
        => LET before == SubSeq(obs.preText, 1, obs.preSel)
               after == SubSeq(obs.preText, obs.preSel + 1, Len(obs.preText))
           IN edText = before \o Spacer(before) \o obs.delta \o <<" ">> \o after

\* C23: no duplicate whitespace at the splice point: after an insertion the
\* delta is not preceded by two whitespace characters of which the insertion
\* added one, and the space added after the delta is not followed by
\* whitespace.
C23_NoDuplicateWhitespaceAtSplice ==
    (lastAct = "onresult" /\ obs.inserted)
        => LET last == selectionStart
               first == last - Len(obs.delta)
               spacerAdded == Len(edText) = Len(obs.preText) + Len(obs.delta) + 2
           IN /\ ~(spacerAdded /\ first >= 3 /\ IsSpace(edText[first - 2]))
              /\ ~(last < Len(edText) /\ IsSpace(edText[last + 1]))

\* C24: successive dictated segments append in order: every insertion leaves
\* the caret right after the delta and its trailing space, and an insertion
\* that finds the text and the caret as the insertion before left them puts
\* its delta right after the earlier delta and one space.
C24_SegmentsAppendInOrder ==
    [][(lastAct' = "onresult" /\ obs'.inserted)
         => LET d == obs'.delta \o <<" ">>
                both == obs.prev.delta \o <<" ">> \o d
                endsWith(seg) ==
                    /\ selectionStart' >= Len(seg)
                    /\ SubSeq(edText', selectionStart' - Len(seg) + 1, selectionStart') = seg
            IN /\ endsWith(d)
               /\ InsertedLast => endsWith(both)]_vars

\* On a mobile device a second utterance in a row was inserted after text the
\* user had typed.
C24_SecondSegmentInARow ==
    /\ lastAct = "onresult" /\ obs.inserted /\ obs.prev.run = 2
    /\ isMobileDevice /\ obs.preText # <<>> /\ obs.preText[1] = "<"

\* C25: any engine error ends the active state: an error notification received
\* while recording, of any type but no-speech on a mobile device, leaves
\* isRecording false and no restart timer armed that a stop has not overtaken.
C25_AnyErrorEndsSession ==
    (lastAct = "onerror" /\ obs.wasRecording
        /\ ~(obs.error = "no-speech" /\ isMobileDevice))
        => ~isRecording /\ timers = stale

\* C26: auto-restart liveness: after an end notification that found
\* isRecording true and the connection on, the engine's start is called, unless
\* the user stops the recording or the connection drops first.
C26_EndLeadsToRestart ==
    (lastAct = "onend" /\ obs.wasRecording /\ obs.wasOnline)
        ~> \/ engineCall.start # "none"
           \/ lastAct \in {"stopRecording", "escape", "goOffline", "offline"}

\* A restart timer called the engine's start after an end notification, with
\* the recording never stopped.
C26_RestartedAfterEnd ==
    lastAct = "timer" /\ obs.timer = "onend" /\ ~obs.stale /\ engineCall.start = "ok"

\* C27: a failed save is not retried: when the save invoked by autoSave fails
\* the status becomes Error and the store and the open note's id stay as they
\* are; and no timer invokes a save while the status shows the failure, every
\* save has completed and the failed save, a manual one, came after the last
\* edit or language change (the timer was armed before it).
C27_FailedSaveIsNotRetried ==
    [][/\ lastAct' = "saveFailed"
            => /\ noteStatus' = "error"
               /\ store' = store /\ keyGen' = keyGen
               /\ currentNote # Null => currentNote'.id = currentNote.id
       /\ ~(/\ lastAct' = "autoSave:timer"
            /\ noteStatus = "error" /\ txq = <<>> /\ manualSince)]_vars

\* A field as sanitizeInput leaves it: no '<', no '>', and every '&' starts
\* one of the entities it writes.
Sanitized(str) ==
    \A i \in 1..Len(str) :
        /\ str[i] \notin {"<", ">"}
        /\ str[i] = "&"
             => \/ /\ i + 4 <= Len(str)
                   /\ SubSeq(str, i, i + 4) = <<"&", "a", "m", "p", ";">>
                \/ /\ i + 3 <= Len(str)
                   /\ SubSeq(str, i, i + 3) \in {<<"&", "l", "t", ";">>,
                                                 <<"&", "g", "t", ";">>}

\* C28: every record in the store is sanitized: its title and text, and in the
\* hybrid variant its summary, hold no raw '<', '>' or unescaped '&', and after
\* a save the record at the note's key holds the HTML-escaping of the fields
\* that were submitted.
C28_StoredFieldsAreSanitized ==
    /\ \A k \in DOMAIN store :
         /\ Sanitized(store[k].title) /\ Sanitized(store[k].text)
         /\ variant = "hybrid" => Sanitized(store[k].summary)
    /\ lastAct \in {"gwInsert", "gwUpdate"}
         => /\ store[currentNote.id].title = sanitizeInput(currentNote.title)
            /\ store[currentNote.id].text = sanitizeInput(currentNote.text)
            /\ variant = "hybrid"
                 => store[currentNote.id].summary = sanitizeInput(currentNote.summary)

\* A note with '<' in its text and '&' in its summary was saved over an
\* earlier record.
C28_SavedMarkup ==
    /\ lastAct = "gwUpdate" /\ variant = "hybrid"
    /\ currentNote.text = <<"<", "y">> /\ currentNote.summary = <<"&">>
    /\ store[currentNote.id].text = <<"&", "l", "t", ";", "y">>
    /\ store[currentNote.id].summary = <<"&", "a", "m", "p", ";">>

\* C29: the engine runs in the current language: whenever the engine's start
\* is called, by startRecording or by a restart or retry timer, the engine's
\* language tag is the tag of the current language.
C29_EngineStartsInCurrentLanguage ==
    (lastAct \in {"startRecording", "startRequest", "timer"} /\ engineCall.start # "none")
        => obs.lang = LanguageTag[currentLanguage]

\* C30: a result event with no final slot changes nothing: the note and its
\* text, the caret and lastFinalizedLength stay as they are and no autosave is
\* scheduled.
C30_NoFinalSlotNoMutation ==
    [][(lastAct' = "onresult" /\ \A i \in 1..Len(results') : ~results'[i].isFinal)
         => /\ edText' = edText /\ selectionStart' = selectionStart
            /\ currentNote' = currentNote
            /\ lastFinalizedLength' = lastFinalizedLength
            /\ UNCHANGED <<noteStatus, saveTimeout, saveDue>>]_vars

\* On a mobile device an event with one interim slot arrived after an
\* utterance had been inserted and its autosave armed.
C30_InterimAfterDictation ==
    /\ lastAct = "onresult" /\ isMobileDevice
    /\ results # <<>> /\ \A i \in 1..Len(results) : ~results[i].isFinal
    /\ edText # <<>> /\ saveTimeout = "armed"

\* The autosave timers that are armed and have not fired.
LiveTimers == (IF saveTimeout = "armed" THEN 1 ELSE 0) + Len(strayTimers)

\* C31: at most one autosave timer is live in every reachable state.
C31_AtMostOneAutosaveTimer == LiveTimers <= 1

\* A transcript insertion re-armed the timer that an edit less than the delay
\* before it had armed.
C31_InsertionRearmedTimer ==
    /\ lastAct = "onresult" /\ obs.inserted
    /\ burst.edits >= 2 /\ saveTimeout = "armed"

\* C32: a save writes the note it was armed for: the timer is armed by
\* mutations only, so a timer that fires right after a new note was created
\* or a note was opened, before any mutation of that note, was armed for the
\* note open before; it would write the note just opened in its place, and the
\* claim excludes that.
C32_SaveWritesNoteItWasArmedFor ==
    [][~(/\ lastAct \in {"createNewNote", "getDone"}
         /\ lastAct' = "autoSave:timer"
         /\ txq' # txq)]_vars

\* C33: the id a save returns is recorded only on the note that was saved:
\* when a save completes whose note has been replaced as the open note while
\* it was in flight, the note open now keeps the id it has (none, for a new
\* note).
C33_IdRecordedOnSavedNoteOnly ==
    [][(lastAct' = "saveDone" /\ ~Head(txq).open /\ currentNote # Null)
         => currentNote'.id = currentNote.id]_vars

\* C34: the editor's note, never persisted when the saves begin, has exactly one
\* store record once every save of it has been answered and one has succeeded
\* (SpecOneNote opens no other note, so every record of the store is a record
\* of that note).
C34_OneNoteOneRecord ==
    (txq = <<>> /\ currentNote # Null /\ currentNote.id # NullId)
        => Cardinality(DOMAIN store) = 1

\* C35: a record removed by a completed delete is not in the store again: no
\* save of a timer armed before the delete, and no save started while the
\* delete was in flight, writes a record with the deleted id.
C35_DeletedNoteNotResurrected == deletedIds \cap DOMAIN store = {}

\* C36: in app.js no handler calls the engine's start while the engine has a
\* session that is starting or listening: start never throws InvalidStateError.
C36_StartNeverOnActiveEngine ==
    [][(variant = "app" /\ engine \in {"starting", "listening"})
         => engineCall'.start # "threw"]_vars

\* C37: whenever the save status shows Saved, the record of the open note holds
\* the editor's title (the default title for an empty one) and text, sanitized:
\* no edit is unsaved, whether or not a timer is pending for it.
C37_SavedMeansSaved ==
    (noteStatus = "saved" /\ currentNote # Null /\ currentNote.id \in DOMAIN store)
        => /\ store[currentNote.id].title = sanitizeInput(autoSaveTitle(edTitle))
           /\ store[currentNote.id].text = sanitizeInput(edText)

\* C38: a save of a note that was loaded from the store and not edited since
\* (the open note is its record and the editor shows the record's title and
\* text) submits a record with the stored title and text.
C38_ResaveKeepsContent ==
    [][(/\ currentNote # Null /\ currentNote.id \in DOMAIN store
        /\ currentNote = store[currentNote.id]
        /\ edTitle = currentNote.title /\ edText = currentNote.text
        /\ lastAct' \in {"autoSave:manual", "autoSave:timer"}
        /\ Len(txq') = Len(txq) + 1)
         => LET rec == txq'[Len(txq')].rec
            IN /\ rec.title = store[currentNote.id].title
               /\ rec.text = store[currentNote.id].text]_vars

\* C39: in app.js isRecognitionStarting implies isRecording in every reachable
\* state.
C39_StartingImpliesRecording ==
    variant = "app" => (isRecognitionStarting => isRecording)

C39_RestartTimerSetsStarting ==
    /\ variant = "app" /\ lastAct = "timer"
    /\ isRecognitionStarting /\ isRecording /\ engineCall.start = "ok"
====
